---- MODULE Spec2Model ----
(***************************************************************************)
(* Model of strategy/fundamental_reversal.py: the composite screen `check` *)
(* (trend reversal through the 250-day moving average, then two            *)
(* fundamental screens fed by the akshare provider).                       *)
(*                                                                         *)
(* A DataFrame is modelled by its rows (a sequence of bars) and its set of *)
(* column names, the rows held by column.  Prices and volumes are integers; a moving average or a   *)
(* mean is the exact rational [num, den], and NaN is the value with        *)
(* den = 0, against which every comparison is false, as for IEEE NaN.      *)
(***************************************************************************)
EXTENDS Integers, Sequences, FiniteSets, TLC

VARIABLES
    series,      \* rows of the caller's DataFrame, oldest first
    callerCols,  \* columns of the caller's DataFrame
    end_date,    \* the end_date argument, or NoDate for None
    data,        \* rows of the local `data` of check / check_ma_breakthrough
    dataCols,    \* columns of the local `data`
    aliased,     \* whether the local `data` is the caller's object
    entry,       \* which function the caller called
    pc,          \* position inside check
    gates,       \* the gates run so far, in order, with what each returned
    calls,       \* the provider calls made so far, in order
    locals,      \* inputs and locals of the last check_financial_growth run
    ret,         \* value returned to the caller
    raised       \* whether an exception reached the caller

vars == <<series, callerCols, end_date, data, dataCols, aliased, entry, pc,
          gates, calls, locals, ret, raised>>

----------------------------------------------------------------------------
(* Program constants *)

MinBars == 250
MA250Period == 250
MA60Period == 60
RecentBars == 30
AfterBars == 5
BeforeBars == 10
MinBelow == 8
MinAbove == 3
MinROE == 10
MaxDebt == 20
MinYield == 3
Quarters == 4

(* Bounds of the model *)

MaxLen == 265

----------------------------------------------------------------------------
(* Rationals with NaN *)

NaN == [num |-> 0, den |-> 0]
Rat(n, d) == [num |-> n, den |-> d]
IsNaN(x) == x.den = 0
RLt(a, b) == ~IsNaN(a) /\ ~IsNaN(b) /\ a.num * b.den < b.num * a.den
RLe(a, b) == ~IsNaN(a) /\ ~IsNaN(b) /\ a.num * b.den <= b.num * a.den
RSub(a, b) == IF IsNaN(a) \/ IsNaN(b) THEN NaN
              ELSE Rat(a.num * b.den - b.num * a.den, a.den * b.den)

\* A DataFrame's rows, held by column; len(data).
NoRows == [date |-> <<>>, close |-> <<>>, volume |-> <<>>]
NRows(rows) == Len(rows.date)

RECURSIVE SumClose(_, _, _)
SumClose(rows, lo, hi) ==
    IF lo > hi THEN 0
    ELSE IF lo = hi THEN rows.close[lo]
    ELSE LET m == (lo + hi) \div 2
         IN  SumClose(rows, lo, m) + SumClose(rows, m + 1, hi)

\* tl.MA(closes, timeperiod) at row i (1-based): NaN for the first
\* timeperiod-1 rows, then the mean of the trailing timeperiod closes.
MA(rows, timeperiod, i) ==
    IF i < timeperiod THEN NaN
    ELSE Rat(SumClose(rows, i - timeperiod + 1, i), timeperiod)

\* Series.mean(): NaN on an empty selection.
RECURSIVE SumRows(_, _)
SumRows(frame, i) ==
    IF i = 0 THEN 0 ELSE frame[i].volume + SumRows(frame, i - 1)

MeanVolume(frame) == Rat(SumRows(frame, Len(frame)), Len(frame))

----------------------------------------------------------------------------
(* pandas / Python slicing.  A row of a derived frame remembers its        *)
(* position `pos` in the frame the moving averages were computed on.       *)

Max(a, b) == IF a >= b THEN a ELSE b
Min(a, b) == IF a <= b THEN a ELSE b

\* Python's s[a:b], with negative indices counted from the end.
Norm(n, k) == IF k < 0 THEN Max(n + k, 0) ELSE Min(k, n)
Slice(s, a, b) ==
    LET lo == Norm(Len(s), a)
        hi == Norm(Len(s), b)
    IN  IF lo < hi THEN SubSeq(s, lo + 1, hi) ELSE <<>>
SliceFrom(s, a) == Slice(s, a, Len(s))
SliceTo(s, b) == Slice(s, 0, b)

\* data['MA250'] / data['MA60'] on rows lo..hi: tl.MA keeps a running
\* total, adding the new close and dropping the one that leaves the window.
RECURSIVE MASlide(_, _, _, _, _)
MASlide(rows, timeperiod, i, hi, acc) ==
    IF i > hi THEN acc
    ELSE LET prev == acc[Len(acc)]
             cur == IF IsNaN(prev) THEN MA(rows, timeperiod, i)
                    ELSE Rat(prev.num + rows.close[i]
                             - rows.close[i - timeperiod], timeperiod)
         IN  MASlide(rows, timeperiod, i + 1, hi, Append(acc, cur))

\* Variant: a mean of whatever bars are there (rolling with min_periods=1).
MAColumnPartial(rows, timeperiod, lo, hi) ==
    [j \in 1..(hi - lo + 1) |->
        LET i == lo + j - 1
            first == Max(1, i - timeperiod + 1)
        IN  Rat(SumClose(rows, first, i), i - first + 1)]

MAColumn(rows, timeperiod, lo, hi) ==
    IF lo > hi THEN <<>>
    ELSE MASlide(rows, timeperiod, lo + 1, hi, <<MA(rows, timeperiod, lo)>>)

\* The rows lo..hi of the frame, each with its moving-average columns.
Frame(rows, lo, hi) ==
    LET ma250 == MAColumn(rows, MA250Period, lo, hi)
    IN  [j \in 1..(hi - lo + 1) |->
            [close |-> rows.close[lo + j - 1],
             volume |-> rows.volume[lo + j - 1],
             MA250 |-> ma250[j]]]

\* Variant: "below" written as not (close >= MA250), which a NaN satisfies.
HitNaNBelow(below, row) ==
    IF below THEN ~RLe(row.MA250, Rat(row.close, 1))
    ELSE RLt(row.MA250, Rat(row.close, 1))

\* close < MA250 (below) or close > MA250 on one row.
Hit(below, row) ==
    IF below THEN RLt(Rat(row.close, 1), row.MA250)
    ELSE RLt(row.MA250, Rat(row.close, 1))

\* sum(<boolean Series>): the number of rows where the comparison is true.
RECURSIVE CountRows(_, _, _)
CountRows(frame, below, i) ==
    IF i = 0 THEN 0
    ELSE (IF Hit(below, frame[i]) THEN 1 ELSE 0) + CountRows(frame, below, i - 1)

----------------------------------------------------------------------------
(* check_ma_breakthrough *)

\* Variant: ma60_slope > 0.
NotDowntrendStrict(ma60_slope) == RLt(Rat(0, 1), ma60_slope)

\* ma60_slope >= 0
NotDowntrend(ma60_slope) == RLe(Rat(0, 1), ma60_slope)

\* Variant: the mean over the last 10 rows of before_break only.
VolumeBefore10(before_break) ==
    MeanVolume(SliceFrom(before_break, 0 - BeforeBars))

\* before_break['volume'].mean()
VolumeBefore(before_break) == MeanVolume(before_break)

\* Variant: avg_volume_after < avg_volume_before.
VolumeNotUpStrict(avg_volume_after, avg_volume_before) ==
    RLt(avg_volume_after, avg_volume_before)

\* avg_volume_after <= avg_volume_before
VolumeNotUp(avg_volume_after, avg_volume_before) ==
    RLe(avg_volume_after, avg_volume_before)

check_ma_breakthrough(rows) ==
    LET n == NRows(rows)
        recent_data == Frame(rows, Norm(n, 0 - RecentBars) + 1, n)
        lo == Norm(n, 0 - 60)
        hi == Norm(n, 0 - 30)
        ma60_slope == RSub(MA(rows, MA60Period, hi), MA(rows, MA60Period, lo + 1))
        before_break == SliceTo(recent_data, 0 - AfterBars)
        after_break == SliceFrom(recent_data, 0 - AfterBars)
        before10 == SliceFrom(before_break, 0 - BeforeBars)
        below_ma250_before == CountRows(before10, TRUE, Len(before10))
        above_ma250_after == CountRows(after_break, FALSE, Len(after_break))
        avg_volume_before == VolumeBefore(before_break)
        avg_volume_after == MeanVolume(after_break)
    IN  IF hi - lo < 30 THEN FALSE
        ELSE IF NotDowntrend(ma60_slope) THEN FALSE
        ELSE IF Len(before_break) < BeforeBars \/ Len(after_break) < AfterBars
             THEN FALSE
        ELSE IF below_ma250_before < MinBelow THEN FALSE
        ELSE IF above_ma250_after < MinAbove THEN FALSE
        ELSE IF VolumeNotUp(avg_volume_after, avg_volume_before) THEN FALSE
        ELSE TRUE

\* The columns of `data` after check_ma_breakthrough ran on it.
AddMAColumns(cols) == cols \cup {"MA250", "MA60"}

----------------------------------------------------------------------------
(* Provider responses.  kind is "raise" (the fetch raised), "none" (None   *)
(* or an empty frame) or "frame".                                          *)

IndicatorResponses ==
    {[kind |-> k, cols |-> {}, roe |-> 0, debt |-> 0] : k \in {"raise", "none"}}
    \cup {[kind |-> "frame", cols |-> {}, roe |-> 0, debt |-> 0],
          [kind |-> "frame", cols |-> {"roe"}, roe |-> 15, debt |-> 0],
          [kind |-> "frame", cols |-> {"roe", "debt"}, roe |-> 9, debt |-> 20],
          [kind |-> "frame", cols |-> {"roe", "debt"}, roe |-> 10, debt |-> 20],
          [kind |-> "frame", cols |-> {"roe", "debt"}, roe |-> 15, debt |-> 21]}

\* Quarterly net profits, most recent first (the whole column).
ProfitResponses(values) ==
    {[kind |-> k, hasCol |-> FALSE, profits |-> <<>>] : k \in {"raise", "none"}}
    \cup {[kind |-> "frame", hasCol |-> FALSE, profits |-> <<>>]}
    \cup {[kind |-> "frame", hasCol |-> TRUE, profits |-> <<8, 2, -5>>]}
    \cup {[kind |-> "frame", hasCol |-> TRUE, profits |-> <<a, b, c, d, 2>>] :
            a \in values, b \in values, c \in values, d \in values}

\* Profit figures offered to check, and to a direct call of
\* check_financial_growth.
CheckProfitValues == {-5, 8}
GrowthProfitValues == {-10, -5, 2, 8, 9, 12}

current_year == 2025

DividendResponses ==
    {[kind |-> k, rows |-> <<>>] : k \in {"raise", "none"}}
    \cup {[kind |-> "frame",
           rows |-> <<[year |-> current_year - 2, amount |-> 5],
                      [year |-> y, amount |-> a],
                      [year |-> current_year, amount |-> 1]>>] :
            y \in {current_year - 2, current_year - 1}, a \in {1, 2}}
    \cup {[kind |-> "frame",
           rows |-> <<[year |-> current_year - 2, amount |-> 5]>>]}

\* A fetch the code never reaches has no response: it is fixed to this one.
Unfetched == "none"
Reached(response, log, k) == Len(log) >= k \/ response.kind = Unfetched

QuoteResponses ==
    {[kind |-> k, price |-> 0] : k \in {"raise", "none"}}
    \cup {[kind |-> "price", price |-> p] : p \in {50, 100, 150}}

----------------------------------------------------------------------------
(* check_financial_growth *)

HeadRows(s, n) == SubSeq(s, 1, Min(n, Len(s)))

\* Variant: the flag is cleared where a figure is >= the next older one.
ProfitIncreasingFlipped(recent_profits) ==
    \A i \in 1..(Len(recent_profits) - 1) :
        ~(recent_profits[i] >= recent_profits[i + 1])

ProfitIncreasing(recent_profits) ==
    \A i \in 1..(Len(recent_profits) - 1) :
        ~(recent_profits[i] <= recent_profits[i + 1])

ProfitTurningPositive(recent_profits) ==
    recent_profits[4] < 0 /\ recent_profits[1] > 0

NoLocals == [reached |-> FALSE, recent_profits |-> <<>>,
             profit_increasing |-> FALSE, profit_turning_positive |-> FALSE]

\* One provider call in the log: the function and whether it raised.
Fetch(fn, response) == [fn |-> fn, raises |-> response.kind = "raise"]

Out(o, c, l) == [out |-> o, calls |-> c, locals |-> l]

\* The body of the try block: out is "true", "false" or "raise".
GrowthBody(ind, prof) ==
    LET c1 == <<Fetch("stock_financial_analysis_indicator", ind)>>
        c2 == Append(c1, Fetch("stock_financial_report_sina", prof))
        recent_profits == HeadRows(prof.profits, Quarters)
        l == [reached |-> TRUE, recent_profits |-> recent_profits,
              profit_increasing |-> ProfitIncreasing(recent_profits),
              profit_turning_positive |-> ProfitTurningPositive(recent_profits)]
    IN  IF ind.kind = "raise" THEN Out("raise", c1, NoLocals)
        ELSE IF ind.kind = "none" THEN Out("false", c1, NoLocals)
        ELSE IF "roe" \notin ind.cols THEN Out("false", c1, NoLocals)
        ELSE IF ind.roe < MinROE THEN Out("false", c1, NoLocals)
        ELSE IF prof.kind = "raise" THEN Out("raise", c2, NoLocals)
        ELSE IF prof.kind = "none" THEN Out("false", c2, NoLocals)
        ELSE IF ~prof.hasCol THEN Out("false", c2, NoLocals)
        ELSE IF Len(recent_profits) < Quarters THEN Out("false", c2, NoLocals)
        ELSE IF ~(l.profit_increasing \/ l.profit_turning_positive)
             THEN Out("false", c2, l)
        ELSE Out("true", c2, l)

\* Variant: no handler, the exception goes on to the caller.
ExceptNothing(r) == r

\* try: ... except Exception: return False
ExceptReturnFalse(r) == IF r.out = "raise" THEN [r EXCEPT !.out = "false"] ELSE r

check_financial_growth(ind, prof) == ExceptReturnFalse(GrowthBody(ind, prof))

----------------------------------------------------------------------------
(* check_financial_ratios *)

RECURSIVE SumAmount(_, _)
SumAmount(rows, i) ==
    IF i = 0 THEN 0 ELSE rows[i].amount + SumAmount(rows, i - 1)

IsRecent(row) == row.year >= current_year - 1

\* The inner try block (dividend yield).
DividendBody(div, quote, rows, c1) ==
    LET c2 == Append(c1, Fetch("stock_history_dividend_detail", div))
        c3 == Append(c2, Fetch("stock_zh_a_spot_em", quote))
        recent_dividends == SelectSeq(div.rows, IsRecent)
        latest_price == IF quote.kind = "price" THEN quote.price
                        ELSE rows.close[NRows(rows)]
        total_dividend == SumAmount(recent_dividends, Len(recent_dividends))
    IN  IF div.kind = "raise" THEN Out("raise", c2, NoLocals)
        ELSE IF div.kind = "none" THEN Out("false", c2, NoLocals)
        ELSE IF Len(recent_dividends) = 0 THEN Out("false", c2, NoLocals)
        ELSE IF total_dividend * 100 < MinYield * latest_price
             THEN Out("false", c3, NoLocals)
        ELSE Out("true", c3, NoLocals)

RatiosBody(bal, div, quote, rows) ==
    LET c1 == <<Fetch("stock_financial_analysis_indicator", bal)>>
    IN  IF bal.kind = "raise" THEN Out("raise", c1, NoLocals)
        ELSE IF bal.kind = "none" THEN Out("false", c1, NoLocals)
        ELSE IF "debt" \notin bal.cols THEN Out("false", c1, NoLocals)
        ELSE IF bal.debt > MaxDebt THEN Out("false", c1, NoLocals)
        ELSE ExceptReturnFalse(DividendBody(div, quote, rows, c1))

check_financial_ratios(bal, div, quote, rows) ==
    ExceptReturnFalse(RatiosBody(bal, div, quote, rows))

----------------------------------------------------------------------------
(* Inputs: price series of n bars, dated 1..n, described from their end.   *)
(* k = n - i is the distance of bar i from the last bar.                   *)

NoDate == <<>>
BaseCols == {"date", "close", "volume"}

Params == [mid : {20, 30, 40}, nb : {7, 8, 10}, na : {2, 3, 5},
           ve : {0, 2, 4}, va : {2, 3}]

GenClose(k, p) ==
    IF k < AfterBars THEN (IF k < p.na THEN 100 ELSE 1)
    ELSE IF k < AfterBars + BeforeBars
         THEN (IF k - AfterBars < p.nb THEN 1 ELSE 100)
    ELSE IF k > 30 /\ k < 60 THEN p.mid
    ELSE 30

GenVolume(k, p) ==
    IF k < AfterBars THEN p.va
    ELSE IF k < AfterBars + BeforeBars THEN 2
    ELSE IF k < RecentBars THEN p.ve
    ELSE 1

GenSeries(n, p) ==
    [date |-> [i \in 1..n |-> i],
     close |-> [i \in 1..n |-> GenClose(n - i, p)],
     volume |-> [i \in 1..n |-> GenVolume(n - i, p)]]

Lens == {1, 29, 59, 60, 118, 249} \cup (MinBars..MaxLen)

\* As-of dates are tried on the longest series: one that leaves too few
\* bars, one that cuts the last bar off, one after the last bar.
EndDates(n) ==
    IF n = MaxLen THEN {NoDate, <<MinBars - 1>>, <<n - 1>>, <<n + 1>>}
    ELSE {NoDate}

Inputs(lens) ==
    UNION {{[rows |-> GenSeries(n, p), end |-> e] :
                p \in Params, e \in EndDates(n)} : n \in lens}

----------------------------------------------------------------------------
(* check *)

\* Variant: data['date'] < end_date.
DateMaskStrict(rows, end) ==
    LET Keep(i) == rows.date[i] < end
        kept == SelectSeq([i \in 1..NRows(rows) |-> i], Keep)
    IN  [date |-> [j \in 1..Len(kept) |-> rows.date[kept[j]]],
         close |-> [j \in 1..Len(kept) |-> rows.close[kept[j]]],
         volume |-> [j \in 1..Len(kept) |-> rows.volume[kept[j]]]]

\* data.loc[data['date'] <= end_date]
DateMask(rows, end) ==
    LET Keep(i) == rows.date[i] <= end
        kept == SelectSeq([i \in 1..NRows(rows) |-> i], Keep)
    IN  [date |-> [j \in 1..Len(kept) |-> rows.date[kept[j]]],
         close |-> [j \in 1..Len(kept) |-> rows.close[kept[j]]],
         volume |-> [j \in 1..Len(kept) |-> rows.volume[kept[j]]]]

\* Variant: the result of the gate is ignored.
AfterGateContinue(r, next) == next

\* `if not gate(...): return False`
AfterGate(r, next) == IF r THEN next ELSE "done"

Gate(name, r) == [gate |-> name, ret |-> r]

InitWith(inputs) ==
    /\ \E in \in inputs : series = in.rows /\ end_date = in.end
    /\ callerCols = BaseCols
    /\ data = NoRows
    /\ dataCols = {}
    /\ aliased = FALSE
    /\ entry = "none"
    /\ pc = "idle"
    /\ gates = <<>>
    /\ calls = <<>>
    /\ locals = NoLocals
    /\ ret = FALSE
    /\ raised = FALSE

Init == InitWith(Inputs(Lens))

\* check, lines 15-26: the end_date mask and the length test.
CallCheck ==
    /\ pc = "idle"
    /\ entry' = "check"
    /\ LET d == IF end_date = NoDate THEN series
                ELSE DateMask(series, end_date[1])
       IN  /\ data' = d
           /\ pc' = IF NRows(d) < MinBars THEN "done" ELSE "trend"
    /\ dataCols' = callerCols
    /\ aliased' = (end_date = NoDate)
    /\ ret' = FALSE
    /\ UNCHANGED <<series, callerCols, end_date, gates, calls, locals, raised>>

\* check, lines 29-30.
GateTrend ==
    /\ pc = "trend"
    /\ LET r == check_ma_breakthrough(data)
       IN  /\ gates' = Append(gates, Gate("check_ma_breakthrough", r))
           /\ pc' = AfterGate(r, "growth")
    /\ dataCols' = AddMAColumns(dataCols)
    /\ callerCols' = IF aliased THEN AddMAColumns(callerCols) ELSE callerCols
    /\ UNCHANGED <<series, end_date, data, aliased, entry, calls, locals, ret,
                   raised>>

\* check, lines 33-34.
GateGrowth ==
    /\ pc = "growth"
    /\ \E ind \in IndicatorResponses,
          prof \in ProfitResponses(CheckProfitValues) :
         LET r == check_financial_growth(ind, prof)
         IN  /\ Reached(prof, r.calls, 2)
             /\ gates' = Append(gates, Gate("check_financial_growth",
                                            r.out = "true"))
             /\ calls' = calls \o r.calls
             /\ locals' = r.locals
             /\ raised' = (r.out = "raise")
             /\ pc' = AfterGate(r.out = "true", "ratios")
    /\ UNCHANGED <<series, callerCols, end_date, data, dataCols, aliased,
                   entry, ret>>

\* check, lines 37-42.
GateRatios ==
    /\ pc = "ratios"
    /\ \E bal \in IndicatorResponses, div \in DividendResponses,
          quote \in QuoteResponses :
         LET r == check_financial_ratios(bal, div, quote, data)
         IN  /\ Reached(div, r.calls, 2)
             /\ Reached(quote, r.calls, 3)
             /\ gates' = Append(gates, Gate("check_financial_ratios",
                                            r.out = "true"))
             /\ calls' = calls \o r.calls
             /\ raised' = (r.out = "raise")
             /\ ret' = (r.out = "true")
             /\ pc' = "done"
    /\ UNCHANGED <<series, callerCols, end_date, data, dataCols, aliased,
                   entry, locals>>

\* The caller calls check_ma_breakthrough on its own frame.
CallDetect ==
    /\ pc = "idle"
    /\ end_date = NoDate
    /\ entry' = "detect"
    /\ data' = series
    /\ dataCols' = AddMAColumns(callerCols)
    /\ callerCols' = AddMAColumns(callerCols)
    /\ aliased' = TRUE
    /\ LET r == check_ma_breakthrough(series)
       IN  /\ gates' = <<Gate("check_ma_breakthrough", r)>>
           /\ ret' = r
    /\ pc' = "done"
    /\ UNCHANGED <<series, end_date, calls, locals, raised>>

\* The caller calls check_financial_growth.
CallGrowth ==
    /\ pc = "idle"
    /\ entry' = "growth"
    /\ \E ind \in IndicatorResponses,
          prof \in ProfitResponses(GrowthProfitValues) :
         LET r == check_financial_growth(ind, prof)
         IN  /\ Reached(prof, r.calls, 2)
             /\ gates' = <<Gate("check_financial_growth", r.out = "true")>>
             /\ calls' = r.calls
             /\ locals' = r.locals
             /\ raised' = (r.out = "raise")
             /\ ret' = (r.out = "true")
    /\ pc' = "done"
    /\ UNCHANGED <<series, callerCols, end_date, data, dataCols, aliased>>

Next == CallCheck \/ GateTrend \/ GateGrowth \/ GateRatios \/ CallDetect

Spec == Init /\ [][Next]_vars

\* check_financial_growth alone, over a wider range of profit figures.
InitGrowth ==
    InitWith(Inputs({1}))

SpecGrowth == InitGrowth /\ [][CallGrowth]_vars

----------------------------------------------------------------------------
(* Properties.  The quantities below are written from the row numbers of   *)
(* `data` (1-based, N rows), not through the slicing of the code.          *)

N == NRows(data)

\* The volumes of rows lo..hi, added up.
RECURSIVE SumVolume(_, _, _)
SumVolume(rows, lo, hi) ==
    IF lo > hi THEN 0
    ELSE IF lo = hi THEN rows.volume[lo]
    ELSE LET m == (lo + hi) \div 2
         IN  SumVolume(rows, lo, m) + SumVolume(rows, m + 1, hi)

\* check_ma_breakthrough has just returned on `data`.
TrendReturned ==
    Len(gates) = 1 /\ gates[1].gate = "check_ma_breakthrough"
TrendResult == gates[1].ret

\* 250 * MA250 at row i, for i >= 250.
Sum250(i) == SumClose(data, i - 249, i)
BelowAt(i) == i >= 250 /\ 250 * data.close[i] < Sum250(i)
AboveAt(i) == i >= 250 /\ 250 * data.close[i] > Sum250(i)
\* Rows N-14..N-5 are the 10 bars before the final 5; rows N-4..N the final 5.
BelowBefore == Cardinality({i \in (N - 14)..(N - 5) : BelowAt(i)})
AboveAfter == Cardinality({i \in (N - 4)..N : AboveAt(i)})
\* 60 * (MA60 at row N-30 minus MA60 at row N-59), for N >= 119.
Slope60 == SumClose(data, N - 89, N - 30) - SumClose(data, N - 118, N - 59)
VolAfter5 == SumVolume(data, N - 4, N)
VolBefore10 == SumVolume(data, N - 14, N - 5)
VolBefore25 == SumVolume(data, N - 29, N - 5)

GateNames == <<"check_ma_breakthrough", "check_financial_growth",
               "check_financial_ratios">>
GrowthFetches == {"stock_financial_analysis_indicator",
                  "stock_financial_report_sina"}
CoreFetches == GrowthFetches \cup {"stock_history_dividend_detail"}

\* C1: check runs the gates in the order trend, growth, ratios; a gate runs
\* only after every earlier gate returned true; at the first gate that
\* returns false check has returned false, and no later gate or provider
\* call is made; check returns true only when all three gates returned true.
C1_ShortCircuit ==
    entry = "check" =>
        /\ Len(gates) <= 3
        /\ \A i \in 1..Len(gates) : gates[i].gate = GateNames[i]
        /\ \A i \in 1..(Len(gates) - 1) : gates[i].ret
        /\ (Len(gates) >= 1 /\ ~gates[Len(gates)].ret
                => pc = "done" /\ ret = FALSE)
        /\ (Len(gates) < 2 => calls = <<>>)
        /\ (Len(gates) = 2 =>
                \A j \in 1..Len(calls) : calls[j].fn \in GrowthFetches)
        /\ (pc = "done" =>
                (ret <=> Len(gates) = 3 /\ \A i \in 1..3 : gates[i].ret))

\* check stopped at the growth gate, after its provider calls.
C1_Witness ==
    /\ entry = "check" /\ pc = "done"
    /\ Len(gates) = 2 /\ ~gates[2].ret /\ Len(calls) = 2

\* C2: on a series of fewer than 250 bars check_ma_breakthrough returns
\* false, and check returns false, without an exception.
C2_ShortSeriesFalse ==
    /\ (entry = "detect" /\ pc = "done" /\ NRows(series) < 250
            => ~gates[1].ret /\ ret = FALSE /\ ~raised)
    /\ (entry = "check" /\ pc = "done" /\ N < 250 => ret = FALSE /\ ~raised)

C2_Witness ==
    entry = "detect" /\ pc = "done" /\ NRows(series) = 249 /\ ret = FALSE

\* C3: no exception reaches the caller; once a fetch of the financial
\* indicators, the quarterly profits or the dividend history has raised,
\* the gate it was made in has returned false and check has returned false.
C3_FetchErrorsAbsorbed ==
    /\ ~raised
    /\ ((\E j \in 1..Len(calls) : calls[j].raises /\ calls[j].fn \in CoreFetches)
            => pc = "done" /\ ret = FALSE /\ ~gates[Len(gates)].ret)

\* The dividend fetch, the last of the three, raised.
C3_Witness ==
    /\ pc = "done" /\ Len(calls) = 4
    /\ calls[4].fn = "stock_history_dividend_detail" /\ calls[4].raises

\* C4 (as stated): with at least 250 bars and a negative MA60 slope, the
\* detector returns true exactly when at least 8 of the 10 before-bars close
\* below MA250, at least 3 of the final 5 close above it, and the mean volume
\* of the final 5 exceeds the mean volume of the 10 before-bars.
C4_TenBarVolume ==
    TrendReturned /\ N >= 250 /\ Slope60 < 0 =>
        (TrendResult <=> /\ BelowBefore >= 8
                         /\ AboveAfter >= 3
                         /\ 10 * VolAfter5 > 5 * VolBefore10)

\* C4 (amended): the same, the volume of the final 5 bars being compared
\* with the mean volume of the 25 bars before them (the last 30 bars
\* without the final 5).
C4_Detector ==
    TrendReturned /\ N >= 250 /\ Slope60 < 0 =>
        (TrendResult <=> /\ BelowBefore >= 8
                         /\ AboveAfter >= 3
                         /\ 25 * VolAfter5 > 5 * VolBefore25)

\* The minimal pass: exactly 8 below, exactly 3 above.
C4_Witness ==
    /\ TrendReturned /\ N >= 250 /\ TrendResult
    /\ Slope60 < 0 /\ BelowBefore = 8 /\ AboveAfter = 3

\* C5 (as stated): if the mean volume of the final 5 bars equals the mean
\* volume of the 10 bars before them, the detector returns false.
C5_EqualTenBarVolume ==
    TrendReturned /\ N >= 30 /\ 10 * VolAfter5 = 5 * VolBefore10
        => ~TrendResult

\* C5 (amended): if the mean volume of the final 5 bars equals the mean
\* volume of the 25 bars before them, the detector returns false.
C5_EqualVolume ==
    TrendReturned /\ N >= 30 /\ 25 * VolAfter5 = 5 * VolBefore25
        => ~TrendResult

\* Equal volume is what fails the series: every other test passes.
C5_Witness ==
    /\ TrendReturned /\ N >= 250 /\ ~TrendResult
    /\ 25 * VolAfter5 = 5 * VolBefore25
    /\ Slope60 < 0 /\ BelowBefore >= 8 /\ AboveAfter >= 3

\* C6: if MA60 at the last bar of data[-60:-30] is equal to or above MA60 at
\* its first bar, the detector returns false.
C6_FlatOrRisingFails ==
    TrendReturned /\ N >= 119 /\ Slope60 >= 0 => ~TrendResult

\* A slope of exactly zero is what fails the series.
C6_Witness ==
    /\ TrendReturned /\ N >= 250 /\ ~TrendResult /\ Slope60 = 0
    /\ BelowBefore >= 8 /\ AboveAfter >= 3
    /\ 25 * VolAfter5 > 5 * VolBefore25

NonDecreasing(p) == \A i \in 1..3 : p[i] <= p[i + 1]

\* C7 (as stated): four quarterly profits, most recent first, with
\* p[i] <= p[i+1] throughout keep the 'increasing' flag and pass.
C7_NonDecreasingPasses ==
    entry = "growth" /\ locals.reached /\ NonDecreasing(locals.recent_profits)
        => locals.profit_increasing /\ ret

\* C7 (amended): with p[i] <= p[i+1] throughout, the 'increasing' flag is
\* cleared, the turnaround branch does not apply, and the check fails.
C7_NonDecreasingFails ==
    entry = "growth" /\ locals.reached /\ NonDecreasing(locals.recent_profits)
        => /\ ~locals.profit_increasing
           /\ ~locals.profit_turning_positive
           /\ ret = FALSE

C7_Witness ==
    /\ entry = "growth" /\ pc = "done" /\ locals.reached
    /\ locals.recent_profits = <<-10, -5, 2, 8>>

\* C8: after check_ma_breakthrough, and after check, the caller's frame has
\* the columns it had.
C8_CallerFrameUnchanged ==
    pc = "done" /\ entry \in {"check", "detect"} => callerCols = BaseCols

\* The rows of the caller's series dated on or before the as-of date (the
\* series is in date order).
AsOfCount ==
    Cardinality({i \in 1..NRows(series) : series.date[i] <= end_date[1]})
Restricted ==
    [date |-> SubSeq(series.date, 1, AsOfCount),
     close |-> SubSeq(series.close, 1, AsOfCount),
     volume |-> SubSeq(series.volume, 1, AsOfCount)]

\* C9: with an as-of date, check works on the bars dated on or before it:
\* the detector's result is its result on the restricted series, and with
\* fewer than 250 such bars check returns false with no gate run and no
\* provider call.
C9_AsOfDate ==
    entry = "check" /\ end_date # NoDate =>
        /\ data = Restricted
        /\ (AsOfCount < 250 =>
                pc = "done" /\ ret = FALSE /\ gates = <<>> /\ calls = <<>>)
        /\ (TrendReturned => TrendResult = check_ma_breakthrough(Restricted))

\* The last bar is cut off, and the remaining bars pass all three gates.
C9_Witness ==
    /\ entry = "check" /\ end_date # NoDate /\ pc = "done" /\ ret
    /\ N = NRows(series) - 1

\* C10: the detector returns false on every series of fewer than 262 bars.
C10_Below262False ==
    TrendReturned /\ N < 262 => ~TrendResult

\* 261 bars: the 7 before-bars that have an MA250 all close below it, and
\* every other test passes.
C10_Witness ==
    /\ TrendReturned /\ N = 261 /\ ~TrendResult
    /\ Slope60 < 0 /\ BelowBefore = 7 /\ AboveAfter >= 3
    /\ 25 * VolAfter5 > 5 * VolBefore25

====
